---------------------------- MODULE Spec2Model ----------------------------
(***************************************************************************)
(* Model of grunt-ts' directive transformer (tasks/modules/transformers.ts).*)
(*                                                                         *)
(* Text is modelled as a sequence of tokens.  A token stands for the exact *)
(* run of characters written in it ("///", "ts:", "import", "=", a name,   *)
(* an extension such as ".ts", a fragment of an emitted statement); "CR",  *)
(* "LF" and "BOM" stand for "\r", "\n" and U+FEFF.  A file's content, a    *)
(* line and a path are all token sequences, so splitting, joining,         *)
(* matching and path arithmetic are computed, not assumed.  Paths are      *)
(* POSIX paths on a case-sensitive file system.                            *)
(***************************************************************************)
EXTENDS Integers, Sequences, FiniteSets, TLC

VARIABLES
    EOL,                 \* os.EOL of the host
    disk,                \* content of the files transformFiles may rewrite
    changedFiles,        \* argument of transformFiles
    targetFiles,         \* argument of transformFiles
    currentTargetFiles,  \* module variable (line 13)
    currentTargetDirs,   \* module variable (line 14)
    pc,                  \* "idle" | "running" | "aborted"; "transform" |
                         \* "transformed" and "folders" | "folded" where a
                         \* function is run on its own
    idx,                 \* position of _.forEach in changedFiles
    run,                 \* number of transformFiles calls started
    last,                \* what the latest callback invocation did (history)
    writes,              \* grunt.file.write invocations: <<run, file>> (history)
    settled,             \* files processed and not changed since (history)
    base,                \* content of the edited file before the edit (history)
    edited,              \* a manual edit of generated lines has happened
    tIn,                 \* input of BaseImportExportTransformer.transform
    tOut,                \* its result, with the paths getImports returned
    gIn,                 \* input of getTargetFolders
    gOut                 \* its result

vars == <<EOL, disk, changedFiles, targetFiles, currentTargetFiles,
          currentTargetDirs, pc, idx, run, last, writes, settled, base,
          edited, tIn, tOut, gIn, gOut>>

-----------------------------------------------------------------------------
(* Bounds of the model *)

\* lines of a file's initial content
MaxLines == 2
\* calls of transformFiles in one behaviour
MaxRuns == 2
\* entries of the targetFiles list given to getTargetFolders
MaxTargets == 3

-----------------------------------------------------------------------------
(* Sequences of tokens *)

\* the first position from i on whose token is in T (Len(s)+1 if none)
RECURSIVE FirstIn(_, _, _)
FirstIn(s, i, T) ==
    IF i > Len(s) THEN Len(s) + 1
    ELSE IF s[i] \in T THEN i
    ELSE FirstIn(s, i + 1, T)

MaxOf(S) == CHOOSE x \in S : \A y \in S : y <= x

Range(s) == {s[i] : i \in 1..Len(s)}

RECURSIVE Concat(_)
Concat(ss) == IF ss = <<>> THEN <<>> ELSE Head(ss) \o Concat(Tail(ss))

\* Array.prototype.join
RECURSIVE Join(_, _)
Join(ss, sep) ==
    IF ss = <<>> THEN <<>>
    ELSE IF Len(ss) = 1 THEN ss[1]
    ELSE ss[1] \o sep \o Join(Tail(ss), sep)

\* String.prototype.split on one separator token
RECURSIVE SplitOn(_, _)
SplitOn(s, sep) ==
    LET i == FirstIn(s, 1, {sep})
    IN  IF i > Len(s) THEN <<s>>
        ELSE <<SubSeq(s, 1, i - 1)>> \o SplitOn(SubSeq(s, i + 1, Len(s)), sep)

\* _str.contains(s, sub)
Contains(s, sub) ==
    \E i \in 0..(Len(s) - Len(sub)) : \A k \in 1..Len(sub) : s[i + k] = sub[k]

EndsWith(s, suffix) ==
    /\ Len(suffix) <= Len(s)
    /\ SubSeq(s, Len(s) - Len(suffix) + 1, Len(s)) = suffix

\* what \s of a JavaScript regular expression and trim() take for white space
IsSpace(t) == t \in {" ", "CR", "LF", "BOM"}

\* first position from i on that holds no white space (Len(s)+1 if none)
RECURSIVE SkipSpace(_, _)
SkipSpace(s, i) ==
    IF i > Len(s) \/ ~IsSpace(s[i]) THEN i ELSE SkipSpace(s, i + 1)

\* s without the white space at its end
RECURSIVE DropTrailingSpace(_)
DropTrailingSpace(s) ==
    IF s = <<>> \/ ~IsSpace(s[Len(s)]) THEN s
    ELSE DropTrailingSpace(SubSeq(s, 1, Len(s) - 1))

\* String.prototype.trim
Trim(s) == DropTrailingSpace(SubSeq(s, SkipSpace(s, 1), Len(s)))

\* String.prototype.toLowerCase on the tokens of the model's alphabet
LowerToken(t) ==
    CASE t = "Index" -> "index"
      [] t = "INDEX" -> "index"
      [] t = "A" -> "a"
      [] OTHER -> t

ToLowerCase(s) == [i \in 1..Len(s) |-> LowerToken(s[i])]

\* contents.split(/\r\n|\r|\n/)
RECURSIVE SplitLines(_)
SplitLines(s) ==
    LET i == FirstIn(s, 1, {"CR", "LF"})
        n == IF s[i] = "CR" /\ i < Len(s) /\ s[i + 1] = "LF" THEN 2 ELSE 1
    IN  IF i > Len(s) THEN <<s>>
        ELSE <<SubSeq(s, 1, i - 1)>> \o SplitLines(SubSeq(s, i + n, Len(s)))

\* .replace(/^\uFEFF/, '')
StripBOM(s) == IF s # <<>> /\ s[1] = "BOM" THEN Tail(s) ELSE s

-----------------------------------------------------------------------------
(* node's path module, on token sequences *)

ROOT == <<".">>

\* the last position up to i that holds the separator (0 if none)
RECURSIVE LastSlashUpTo(_, _)
LastSlashUpTo(p, i) ==
    IF i = 0 THEN 0
    ELSE IF p[i] = "/" THEN i
    ELSE LastSlashUpTo(p, i - 1)

LastSlash(p) == LastSlashUpTo(p, Len(p))

\* path.dirname
Dirname(p) ==
    LET k == LastSlash(p)
    IN  IF k = 0 THEN ROOT ELSE SubSeq(p, 1, k - 1)

\* path.basename(p)
Basename(p) == SubSeq(p, LastSlash(p) + 1, Len(p))

\* path.basename(p, ext)
BasenameExt(p, ext) ==
    LET b == Basename(p)
    IN  IF EndsWith(b, ext) THEN SubSeq(b, 1, Len(b) - Len(ext)) ELSE b

\* path.join(dir, name)
PathJoin(dir, name) == IF dir = ROOT THEN name ELSE dir \o <<"/">> \o name

\* path.extname(p) is not empty
HasExtname(p) ==
    LET b == Basename(p)
    IN  Len(b) > 1 /\ b[Len(b)] \in {".ts", ".d", ".md"}

\* path.relative(a, b) === '' for normalized relative paths
SamePath(a, b) == a = b
-----------------------------------------------------------------------------
(* The project on disk.  fs.existsSync and utils.getFiles read it. *)

F_app      == <<"app", ".ts">>
F_fooIndex == <<"foo", "/", "index", ".ts">>
F_fooA     == <<"foo", "/", "a", ".ts">>
F_fooB     == <<"foo", "/", "b", ".ts">>
F_fooTypes == <<"foo", "/", "types", ".d", ".ts">>
F_fooNotes == <<"foo", "/", "notes", ".md">>
F_fooReadme == <<"foo", "/", "README">>
F_barC     == <<"bar", "/", "c", ".ts">>
F_barIndex == <<"bar", "/", "Index", ".ts">>
F_libFoo   == <<"lib", "/", "foo", ".ts">>

\* every file of the project, in the order of JavaScript's string comparison
PathOrder ==
    <<F_app, F_barIndex, F_barC, F_fooReadme, F_fooA, F_fooB, F_fooIndex,
      F_fooNotes, F_fooTypes, F_libFoo>>

DiskFiles == Range(PathOrder)

\* fs.existsSync
ExistsSync(p) == p \in DiskFiles

\* fs.lstatSync(p).isDirectory()
IsDirectory(p) == \E f \in DiskFiles : \E k \in 1..Len(f) : f[k] = "/" /\ SubSeq(f, 1, k - 1) = p

\* utils.getFiles before its exclude callback: the files inside a directory
DirEntries(dir) == {f \in DiskFiles : Dirname(f) = dir}

\* Array.prototype.sort of a set of project paths
SortPaths(S) == SelectSeq(PathOrder, LAMBDA f : f \in S)

-----------------------------------------------------------------------------
(* getImports (lines 20-66) *)

\* the test of the file lookup (lines 25-27)
FileNameMatches(targetFile, name) ==
    \/ Basename(targetFile) = name
    \/ BasenameExt(targetFile, <<".d", ".ts">>) = name
    \/ BasenameExt(targetFile, <<".ts">>) = name

\* the exclude callback given to utils.getFiles (lines 52-59)
ExcludeFromDir(currentFilePath, filename) ==
    \/ SamePath(currentFilePath, filename)
    \/ /\ HasExtname(filename)
       /\ (~EndsWith(filename, <<".ts">>) \/ EndsWith(filename, <<".d", ".ts">>))
       /\ ~IsDirectory(filename)

\* UseIndexFile without the test of line 47 for the current file
UseIndexFileAlso(currentFilePath, targetDir, getIndexIfDir) ==
    /\ getIndexIfDir
    /\ ExistsSync(PathJoin(targetDir, <<"index", ".ts">>))

\* the branch test of lines 45-47
UseIndexFile(currentFilePath, targetDir, getIndexIfDir) ==
    /\ getIndexIfDir
    /\ ExistsSync(PathJoin(targetDir, <<"index", ".ts">>))
    /\ ~SamePath(currentFilePath, PathJoin(targetDir, <<"index", ".ts">>))

\* what a matching directory contributes (lines 41-63)
DirImports(currentFilePath, targetDir, getIndexIfDir) ==
    IF UseIndexFile(currentFilePath, targetDir, getIndexIfDir)
    THEN <<PathJoin(targetDir, <<"index", ".ts">>)>>
    ELSE SortPaths({f \in DirEntries(targetDir) : ~ExcludeFromDir(currentFilePath, f)})

\* _.find(targetFiles, ...) of lines 24-29: the first entry that satisfies
\* the test, or <<>> (undefined)
FindTargetFile(tFiles, name) ==
    LET hits == SelectSeq(tFiles, LAMBDA f : FileNameMatches(f, name))
    IN  IF hits = <<>> THEN <<>> ELSE hits[1]

\* _.find(targetDirs, ...) of lines 38-40
FindTargetDir(tDirs, name) ==
    LET hits == SelectSeq(tDirs, LAMBDA d : Basename(d) = name)
    IN  IF hits = <<>> THEN <<>> ELSE hits[1]

getImports(currentFilePath, name, tFiles, tDirs, getIndexIfDir) ==
    LET targetFile == FindTargetFile(tFiles, name)
        targetDir  == FindTargetDir(tDirs, name)
    IN  (IF targetFile # <<>> THEN <<targetFile>> ELSE <<>>)
        \o (IF targetDir # <<>>
            THEN DirImports(currentFilePath, targetDir, getIndexIfDir)
            ELSE <<>>)

-----------------------------------------------------------------------------
(* getTargetFolders (lines 72-83) *)

\* the own properties every object inherits: `dir in folders` is true of them
ObjectPrototypeKeys ==
    {<<"constructor">>, <<"toString">>, <<"valueOf">>, <<"hasOwnProperty">>,
     <<"isPrototypeOf">>, <<"propertyIsEnumerable">>, <<"toLocaleString">>,
     <<"__proto__">>}

\* dir in folders (line 76); folders is the sequence of keys in insertion order
InFolders(dir, folders) == dir \in Range(folders) \/ dir \in ObjectPrototypeKeys

\* the while loop of lines 76-80
RECURSIVE WalkUp(_, _)
WalkUp(dir, folders) ==
    IF dir # ROOT /\ ~InFolders(dir, folders)
    THEN WalkUp(Dirname(dir), Append(folders, dir))
    ELSE folders

\* _.forEach(targetFiles, ...) of lines 74-81
RECURSIVE EachTargetFile(_, _)
EachTargetFile(tFiles, folders) ==
    IF tFiles = <<>> THEN folders
    ELSE EachTargetFile(Tail(tFiles), WalkUp(Dirname(Head(tFiles)), folders))

\* Object.keys(folders)
getTargetFolders(tFiles) == EachTargetFile(tFiles, <<>>)

-----------------------------------------------------------------------------
(* The transformers (lines 92-214) *)

\* utils.makeRelativePath(folder, file, true): path.relative, then "./" in
\* front unless the result starts with "."
RECURSIVE DropCommon(_, _)
DropCommon(a, b) ==
    IF a # <<>> /\ b # <<>> /\ Head(a) = Head(b)
    THEN DropCommon(Tail(a), Tail(b))
    ELSE <<a, b>>

makeRelativePath(folder, file) ==
    LET from == IF folder = ROOT THEN <<>> ELSE SplitOn(folder, "/")
        rest == DropCommon(from, SplitOn(file, "/"))
        ups  == [i \in 1..Len(rest[1]) |-> <<"..">>]
        rel  == Join(ups \o rest[2], <<"/">>)
    IN  IF rel # <<>> /\ rel[1] = ".." THEN rel ELSE <<"./">> \o rel

\* '///ts:' + key + ':generated' (lines 105-106)
SignatureGenerated(key) == <<"///", "ts:", key, ":generated">>

\* BaseTransformer's constructor (lines 103-108)
BaseTransformer(key, variableSyntax) ==
    [key |-> key,
     pattern |-> key,
     signatureGenerated |-> SignatureGenerated(key),
     syntaxError |-> <<"/// Invalid syntax for ts:", key, "=", variableSyntax, " ">>
                     \o SignatureGenerated(key)]

\* lines 176-181
ImportTransformer ==
    BaseTransformer("import", "<fileOrDirectoryName>[,<variableName>]") @@
    [getIndexIfDir |-> TRUE, removeExtensionFromFilePath |-> TRUE]

\* lines 183-192
ExportTransformer ==
    BaseTransformer("export", "<fileOrDirectoryName>[,<variableName>]") @@
    [getIndexIfDir |-> FALSE, removeExtensionFromFilePath |-> TRUE]

\* lines 194-201
ReferenceTransformer ==
    BaseTransformer("ref", "<fileOrDirectoryName>") @@
    [getIndexIfDir |-> FALSE, removeExtensionFromFilePath |-> FALSE]

\* lines 203-209: the constructor overwrites key, signatureGenerated and
\* syntaxError; the pattern built from '(.*)' stays
UnknownTransformer ==
    [BaseTransformer("(.*)", "") EXCEPT
        !.key = "unknown",
        !.signatureGenerated = <<"///", "ts:", "unknown", ":generated">>,
        !.syntaxError = <<"/// Unknown transform ", "///", "ts:", "unknown", ":generated">>] @@
    [getIndexIfDir |-> FALSE, removeExtensionFromFilePath |-> FALSE]

\* the array of lines 230-235
transformers ==
    <<ImportTransformer, ExportTransformer, ReferenceTransformer, UnknownTransformer>>

\* BaseTransformer.tsSignatureMatch.test(s) (lines 93, 118-120)
containsTransformSignature(s) ==
    \E i \in 1..Len(s) :
        /\ s[i] = "///"
        /\ SkipSpace(s, i + 1) <= Len(s)
        /\ s[SkipSpace(s, i + 1)] = "ts:"

\* isGenerated (lines 110-112)
isGenerated(t, line) == Contains(line, t.signatureGenerated)

\* line.match(/^\/\/\/\s*ts:KEY(=?)(.*)/) (lines 97, 104, 114-116).  ok is
\* FALSE for null; m1 and m2 are the first two capture groups, which for the
\* pattern of UnknownTransformer are those of '(.*)' and '(=?)'.
NoMatch == [ok |-> FALSE, m1 |-> <<>>, m2 |-> <<>>]

matches(t, line) ==
    LET j == IF line # <<>> /\ line[1] = "///" THEN SkipSpace(line, 2) ELSE Len(line) + 1
    IN  IF j > Len(line) \/ line[j] # "ts:" THEN NoMatch
        ELSE IF t.pattern = "(.*)"
        THEN [ok |-> TRUE, m1 |-> SubSeq(line, j + 1, Len(line)), m2 |-> <<>>]
        ELSE IF j + 1 <= Len(line) /\ line[j + 1] = t.pattern
        THEN LET eq == j + 2 <= Len(line) /\ line[j + 2] = "="
             IN  [ok |-> TRUE,
                  m1 |-> IF eq THEN <<"=">> ELSE <<>>,
                  m2 |-> SubSeq(line, j + 2 + (IF eq THEN 1 ELSE 0), Len(line))]
        ELSE NoMatch

\* TemplateVars without the test of match[1], the equals sign
TemplateVarsAnyway(m) == IF m.m2 = <<>> THEN <<>> ELSE Trim(m.m2)

\* match[1] && match[2] && match[2].trim() (line 269)
TemplateVars(m) == IF m.m1 = <<>> \/ m.m2 = <<>> THEN <<>> ELSE Trim(m.m2)

\* the three templates (lines 179, 189-190, 199) with the marker appended
\* (lines 159-161); the export template holds os.EOL
Template(t, filename, pathToFile, eol) ==
    CASE t.key = "import" ->
           <<"import ">> \o filename \o <<" = require('">> \o pathToFile \o <<"');", " ">>
           \o t.signatureGenerated
      [] t.key = "export" ->
           <<"import ">> \o filename \o <<"_file", " = require('">> \o pathToFile
           \o <<"');", " ">> \o t.signatureGenerated \o eol
           \o <<"export var ">> \o filename \o <<" = ">> \o filename \o <<"_file", ";", " ">>
           \o t.signatureGenerated
      [] OTHER ->
           <<"/// <reference path=\"">> \o pathToFile \o <<"\"/>", " ">>
           \o t.signatureGenerated

\* vars.length > 1 ? vars[1].trim() : null (line 146); <<>> is null or ''
RequestedVariableName(vs) == IF Len(vs) > 1 THEN Trim(vs[2]) ELSE <<>>

\* AliasFor with the test of line 153 on the exact word
AliasForExactIndex(requestedVariableName, completePathToFile) ==
    LET filename == IF requestedVariableName # <<>> THEN requestedVariableName
                    ELSE BasenameExt(BasenameExt(completePathToFile, <<".ts">>), <<".d">>)
    IN  IF filename = <<"index">>
        THEN Basename(Dirname(completePathToFile))
        ELSE filename

\* lines 151-155
AliasFor(requestedVariableName, completePathToFile) ==
    LET filename == IF requestedVariableName # <<>> THEN requestedVariableName
                    ELSE BasenameExt(BasenameExt(completePathToFile, <<".ts">>), <<".d">>)
    IN  IF ToLowerCase(filename) = <<"index">>
        THEN Basename(Dirname(completePathToFile))
        ELSE filename

\* completePathToFile.replace(/(?:\.d)?\.ts$/, '') (line 157)
StripTsExtension(p) ==
    IF EndsWith(p, <<".d", ".ts">>) THEN SubSeq(p, 1, Len(p) - 2)
    ELSE IF EndsWith(p, <<".ts">>) THEN SubSeq(p, 1, Len(p) - 1)
    ELSE p

\* the paths transform asks getImports for (lines 144-148); <<>> when it
\* asks for none
ImportsOf(t, sourceFile, templateVars, tFiles, tDirs) ==
    IF t.key = "unknown" \/ templateVars = <<>> THEN <<>>
    ELSE getImports(sourceFile, Trim(SplitOn(templateVars, ",")[1]), tFiles, tDirs,
                    t.getIndexIfDir)

\* BaseImportExportTransformer.transform (lines 141-173)
TransformImportExport(t, sourceFile, templateVars, tFiles, tDirs, eol) ==
    IF templateVars # <<>>
    THEN LET vs == SplitOn(templateVars, ",")
             requestedFileName == Trim(vs[1])
             imports == ImportsOf(t, sourceFile, templateVars, tFiles, tDirs)
         IN  IF imports # <<>>
             THEN [i \in 1..Len(imports) |->
                     Template(t,
                              AliasFor(RequestedVariableName(vs), imports[i]),
                              makeRelativePath(Dirname(sourceFile),
                                  IF t.removeExtensionFromFilePath
                                  THEN StripTsExtension(imports[i]) ELSE imports[i]),
                              eol)]
             ELSE << <<"/// No file or directory matched name \"">> \o requestedFileName
                     \o <<"\" ">> \o t.signatureGenerated >>
    ELSE <<t.syntaxError>>

\* transformer.transform(sourceFile, templateVars): UnknownTransformer's is
\* lines 211-213
transform(t, sourceFile, templateVars, tFiles, tDirs, eol) ==
    IF t.key = "unknown" THEN <<t.syntaxError>>
    ELSE TransformImportExport(t, sourceFile, templateVars, tFiles, tDirs, eol)

-----------------------------------------------------------------------------
(* The callback of _.forEach(changedFiles, ...) (lines 237-285) *)

\* IsGeneratedLine that asks the import transformer only
IsGeneratedLineOfImport(line) == isGenerated(transformers[1], line)

\* _.some(transformers, t => t.isGenerated(line)) (line 257)
IsGeneratedLine(line) == \E k \in 1..Len(transformers) : isGenerated(transformers[k], line)

\* the transformer _.some stops at in lines 262-273: the first whose
\* matches(line) is not null; 0 when there is none
Claimant(line) ==
    IF matches(transformers[1], line).ok THEN 1
    ELSE IF matches(transformers[2], line).ok THEN 2
    ELSE IF matches(transformers[3], line).ok THEN 3
    ELSE IF matches(transformers[4], line).ok THEN 4
    ELSE 0

\* LineOutput that pushes the directive line after its block
LineOutputBlockFirst(line, file, tFiles, tDirs, eol) ==
    IF IsGeneratedLine(line) THEN <<>>
    ELSE LET k == Claimant(line)
         IN  IF k # 0
             THEN transform(transformers[k], file,
                            TemplateVars(matches(transformers[k], line)),
                            tFiles, tDirs, eol) \o <<line>>
             ELSE <<line>>

\* what one pass of the for loop pushes to outputLines (lines 250-279)
LineOutput(line, file, tFiles, tDirs, eol) ==
    IF IsGeneratedLine(line) THEN <<>>
    ELSE LET k == Claimant(line)
         IN  IF k # 0
             THEN <<line>> \o transform(transformers[k], file,
                                        TemplateVars(matches(transformers[k], line)),
                                        tFiles, tDirs, eol)
             ELSE <<line>>

\* what each pass of the for loop pushes, line by line (lines 248-280)
Pushed(lines, file, tFiles, tDirs, eol) ==
    [i \in 1..Len(lines) |-> LineOutput(lines[i], file, tFiles, tDirs, eol)]

\* outputLines after the for loop (lines 245-280)
OutputLines(lines, file, tFiles, tDirs, eol) ==
    Concat(Pushed(lines, file, tFiles, tDirs, eol))

\* ShouldWrite that does not compare
ShouldWriteAlways(transformedContent, contents) == TRUE

\* transformedContent !== contents (line 282)
ShouldWrite(transformedContent, contents) == transformedContent # contents

\* the name the pass for this line gives getImports (lines 144-148), as a
\* one-element sequence; <<>> when the pass does not call getImports
RequestedName(line) ==
    IF IsGeneratedLine(line) \/ Claimant(line) \in {0, 4} THEN <<>>
    ELSE LET tv == TemplateVars(matches(transformers[Claimant(line)], line))
         IN  IF tv = <<>> THEN <<>> ELSE <<Trim(SplitOn(tv, ",")[1])>>

\* fs.readFileSync(f).toString().replace(/^\uFEFF/, '') (line 238)
ReadContents(f) == StripBOM(disk[f])

\* the history record of one invocation of the callback that read the file
Invocation(f) ==
    LET contents == ReadContents(f)
        sig == containsTransformSignature(contents)
        lines == IF sig THEN SplitLines(contents) ELSE <<>>
        pushed == Pushed(lines, f, currentTargetFiles, currentTargetDirs, EOL)
        out == Concat(pushed)
    IN  [file |-> f,
         run |-> run,
         again |-> f \in settled,
         read |-> TRUE,
         bom |-> contents # disk[f],
         contents |-> contents,
         signature |-> sig,
         pushed |-> pushed,
         \* outputLines.join(os.EOL) (line 281)
         transformedContent |-> Join(out, EOL),
         wrote |-> FALSE,
         threw |-> FALSE]

NoInvocation ==
    [file |-> <<>>, run |-> 0, again |-> FALSE, read |-> FALSE, bom |-> FALSE,
     contents |-> <<>>,
     signature |-> FALSE, pushed |-> <<>>,
     transformedContent |-> <<>>, wrote |-> FALSE, threw |-> FALSE]

\* the callback returns: _.forEach moves on, and transformFiles returns after
\* the last file
Returned(inv) ==
    /\ idx' = idx + 1
    /\ pc' = IF idx = Len(changedFiles) THEN "idle" ELSE "running"
    /\ last' = inv
    /\ settled' = settled \cup {inv.file}

\* an exception leaves the callback, _.forEach and transformFiles
Thrown(inv) ==
    /\ pc' = "aborted"
    /\ last' = [inv EXCEPT !.threw = TRUE]
    /\ UNCHANGED <<idx, settled>>

\* fs.readFileSync throws (line 238)
ReadFails(f) ==
    /\ Thrown([NoInvocation EXCEPT !.file = f, !.run = run, !.again = f \in settled])
    /\ UNCHANGED <<disk, writes>>

\* no signature in the file: return (lines 241-243)
NoSignature(inv) ==
    /\ ~inv.signature
    /\ Returned(inv)
    /\ UNCHANGED <<disk, writes>>

\* transformedContent === contents: nothing is written (line 282)
NoChange(inv) ==
    /\ inv.signature
    /\ ~ShouldWrite(inv.transformedContent, inv.contents)
    /\ Returned(inv)
    /\ UNCHANGED <<disk, writes>>

\* grunt.file.write(fileToProcess, transformedContent) (lines 282-284)
Rewrite(inv) ==
    /\ inv.signature
    /\ ShouldWrite(inv.transformedContent, inv.contents)
    /\ disk' = [disk EXCEPT ![inv.file] = inv.transformedContent]
    /\ writes' = writes \cup {<<run, inv.file>>}
    /\ Returned([inv EXCEPT !.wrote = TRUE])

\* grunt.file.write throws and leaves the file as it was (lines 282-284)
WriteFails(inv) ==
    /\ inv.signature
    /\ ShouldWrite(inv.transformedContent, inv.contents)
    /\ writes' = writes \cup {<<run, inv.file>>}
    /\ Thrown([inv EXCEPT !.wrote = TRUE])
    /\ UNCHANGED disk

\* one invocation of the callback (lines 237-285)
Callback ==
    /\ pc = "running"
    /\ idx <= Len(changedFiles)
    /\ LET inv == Invocation(changedFiles[idx])
       IN  \/ ReadFails(changedFiles[idx])
           \/ NoSignature(inv)
           \/ NoChange(inv)
           \/ Rewrite(inv)
           \/ WriteFails(inv)
    /\ UNCHANGED <<EOL, changedFiles, targetFiles, currentTargetFiles,
                   currentTargetDirs, run, base, edited, tIn, tOut, gIn, gOut>>

\* a call of transformFiles, up to _.forEach (lines 219-236).  A call that
\* threw ended the task; the model follows it no further.
transformFiles ==
    /\ pc = "idle"
    /\ run < MaxRuns
    /\ currentTargetDirs' = getTargetFolders(targetFiles)
    /\ currentTargetFiles' = targetFiles
    /\ run' = run + 1
    /\ idx' = 1
    /\ pc' = "running"
    /\ UNCHANGED <<EOL, disk, changedFiles, targetFiles, last, writes, settled,
                   base, edited, tIn, tOut, gIn, gOut>>

-----------------------------------------------------------------------------
(* The files transformFiles is run on *)

\* the file whose content is drawn from InitialContents
Subject == F_app

\* a second changed file, after the first in changedFiles
Other == F_fooA

OtherContent == <<"///", "ts:", "ref", "=", "b">>

LinePool ==
    { <<"x">>,
      <<"///", "ts:", "import", "=", "foo">>,
      <<"///", " ", "ts:", "export", "=", "foo">>,
      <<"///", "ts:", "import">>,
      <<"///", "ts:", "export", " ", "foo">>,
      <<"///", "ts:", "bogus", "=", "foo">>,
      <<" ", "///", "ts:", "import", "=", "a">>,
      <<"stale", " ", "///", "ts:", "import", ":generated">> }

\* lines for the contents that vary in line terminator and byte-order mark
CorePool ==
    { <<"x">>,
      <<"///", "ts:", "import", "=", "foo">> }

Terminators == {<<"LF">>, <<"CR", "LF">>, <<"CR">>}

BOMPrefixes == {<<>>, <<"BOM">>, <<"BOM", "BOM">>}

LineSeqs(pool) == UNION {[1..n -> pool] : n \in 1..MaxLines}

InitialContents ==
    {Join(ls, <<"LF">>) : ls \in LineSeqs(LinePool)}
    \cup {bom \o Join(ls, term) :
            ls \in LineSeqs(CorePool), term \in Terminators, bom \in BOMPrefixes}

TargetFileLists ==
    { <<F_app, F_fooIndex, F_fooA, F_fooB, F_barC, F_libFoo>>,
      <<>> }

ChangedFileLists == { <<Subject, Other>> }

-----------------------------------------------------------------------------
(* A manual edit of the generated lines of Subject, before a run *)

StaleLine == <<"edited", " ", "///", "ts:", "export", ":generated">>

\* where the terminator before the last line starts and ends (0 if one line)
LastBreak(c) ==
    LET brk == {i \in 1..Len(c) : c[i] \in {"CR", "LF"}}
    IN  IF brk = {} THEN <<0, 0>>
        ELSE LET i == MaxOf(brk)
             IN  IF c[i] = "LF" /\ i > 1 /\ c[i - 1] = "CR" THEN <<i - 1, i>> ELSE <<i, i>>

\* the contents one insertion, deletion or change of a marker line leads to
MarkerEdits(c, eol) ==
    LET body == StripBOM(c)
        pre == SubSeq(c, 1, Len(c) - Len(body))
        b == LastBreak(body)
        lastLine == SubSeq(body, b[2] + 1, Len(body))
    IN  { pre \o StaleLine \o eol \o body }
        \cup (IF IsGeneratedLine(lastLine)
              THEN { pre \o SubSeq(body, 1, b[1] - 1),
                     pre \o SubSeq(body, 1, b[2]) \o StaleLine }
              ELSE {})

Edit ==
    /\ pc = "idle"
    /\ ~edited
    /\ run < MaxRuns
    /\ \E c \in MarkerEdits(disk[Subject], EOL) :
          /\ c # disk[Subject]
          /\ disk' = [disk EXCEPT ![Subject] = c]
    /\ base' = disk[Subject]
    /\ edited' = TRUE
    /\ settled' = settled \ {Subject}
    /\ UNCHANGED <<EOL, changedFiles, targetFiles, currentTargetFiles,
                   currentTargetDirs, pc, idx, run, last, writes, tIn, tOut, gIn, gOut>>

-----------------------------------------------------------------------------
(* Runs of transformFiles *)

Init ==
    /\ EOL \in {<<"LF">>, <<"CR", "LF">>}
    /\ \E c \in InitialContents : disk = (Subject :> c) @@ (Other :> OtherContent)
    /\ changedFiles \in ChangedFileLists
    /\ targetFiles \in TargetFileLists
    /\ currentTargetFiles = <<>>
    /\ currentTargetDirs = <<>>
    /\ pc = "idle"
    /\ idx = 1
    /\ run = 0
    /\ last = NoInvocation
    /\ writes = {}
    /\ settled = {}
    /\ base = <<>>
    /\ edited = FALSE
    /\ tIn = <<>>
    /\ tOut = <<>>
    /\ gIn = <<>>
    /\ gOut = <<>>

Next ==
    \/ transformFiles
    \/ Callback
    \/ Edit

Spec == Init /\ [][Next]_vars

-----------------------------------------------------------------------------
(* Properties of transformFiles, in Spec.  They speak of the latest
   invocation of the callback, recorded in last. *)

\* the lines the latest invocation split the file into
LastLines == SplitLines(last.contents)

\* the latest invocation read its file and found a signature in it
Processed == last.read /\ last.signature

\* grunt.file.write was invoked by the latest invocation
Written == <<last.run, last.file>> \in writes

\* what lines 245-281 make of a content
TransformedOf(contents, file) ==
    Join(OutputLines(SplitLines(contents), file, currentTargetFiles, currentTargetDirs, EOL),
         EOL)

\* C1: a run over a file that an earlier run processed, with nothing changed
\* in between, leaves the content as it is and does not invoke the write.
C1_SecondRunWritesNothing ==
    (last.read /\ last.again) =>
        /\ ~Written
        /\ last.signature => last.transformedContent = last.contents

\* the second run does write nothing when the text it reads from disk does
\* not begin with a byte-order mark
SecondRunLemma ==
    (last.read /\ last.again /\ ~last.bom) => ~Written

\* C2: a failure on one changed file does not end the run: once the run is
\* over, _.forEach has visited every changed file.
C2_RunVisitsEveryFile ==
    (run > 0 /\ pc # "running") => idx >= Len(changedFiles)

\* the word after the first "///" white space* "ts:" of a line, from i on
RECURSIVE KeywordFrom(_, _)
KeywordFrom(line, i) ==
    IF i > Len(line) THEN ""
    ELSE IF /\ line[i] = "///"
            /\ SkipSpace(line, i + 1) < Len(line)
            /\ line[SkipSpace(line, i + 1)] = "ts:"
    THEN line[SkipSpace(line, i + 1) + 1]
    ELSE KeywordFrom(line, i + 1)

Keyword(line) == KeywordFrom(line, 1)

\* the kind that is to claim a keyword
KindOf(keyword) == IF keyword \in {"import", "export", "ref"} THEN keyword ELSE "unknown"

\* C3: every line with a directive signature that is not a generated line is
\* claimed by exactly one kind, the first of import, export, ref, unknown to
\* recognize it: the line is followed by that kind's block, which for a
\* keyword that is none of import, export, ref is the unknown kind's line.
C3_EverySignatureLineClaimed ==
    Processed =>
        LET lines == LastLines
        IN  \A i \in 1..Len(lines) :
                (containsTransformSignature(lines[i]) /\ ~IsGeneratedLine(lines[i])) =>
                    LET kind == KindOf(Keyword(lines[i]))
                        block == last.pushed[i]
                    IN  /\ Len(block) >= 2
                        /\ block[1] = lines[i]
                        /\ \A j \in 2..Len(block) :
                              Contains(block[j], SignatureGenerated(kind))
                        /\ kind = "unknown" =>
                              block = <<lines[i],
                                        <<"/// Unknown transform ", "///", "ts:", "unknown",
                                          ":generated">> >>

\* C4 as stated: the write is invoked exactly when the lines of the file,
\* transformed and joined with the host's EOL, differ from what was read.
C4_WrittenIffDiffers ==
    last.read => (Written <=> TransformedOf(last.contents, last.file) # last.contents)

\* C4 amended: for a file that holds a directive signature the write is
\* invoked exactly when the transformed content differs from what was read;
\* a file without a signature is never written, whatever its line endings.
C4_WrittenIffSignatureAndDiffers ==
    last.read =>
        /\ last.signature => (Written <=> last.transformedContent # last.contents)
        /\ ~last.signature => ~Written
        /\ (Written /\ ~last.threw) => disk[last.file] = last.transformedContent

C4_Witness ==
    /\ last.read
    /\ ~last.signature
    /\ ~Written
    /\ Join(SplitLines(last.contents), EOL) # last.contents

\* the latest invocation is the first on Subject since its generated lines
\* were edited
AfterEdit ==
    /\ edited
    /\ last.file = Subject
    /\ last.read
    /\ ~last.again

\* what transformFiles leaves in a file it read as contents
ResultOf(contents, file) ==
    IF containsTransformSignature(contents) THEN TransformedOf(contents, file) ELSE contents

\* C6 as stated: the content transformFiles produces from a file whose
\* generated lines were edited is the content it produces from the file as it
\* was before the edit.
C6_SameResultAfterEdit ==
    AfterEdit =>
        (IF last.signature THEN last.transformedContent ELSE last.contents)
            = ResultOf(StripBOM(base), Subject)

\* C6 amended: when the file held a directive signature before the edit and
\* holds one after it, the transformed content is the same for both, and no
\* edited generated line is in it; when it held none before the edit, the
\* transformed content is the unedited content with its lines joined by the
\* host's EOL.
C6_SameResultAfterEditGivenSignature ==
    (AfterEdit /\ last.signature) =>
        /\ containsTransformSignature(StripBOM(base))
              => last.transformedContent = TransformedOf(StripBOM(base), Subject)
        /\ ~containsTransformSignature(StripBOM(base))
              => last.transformedContent = Join(SplitLines(StripBOM(base)), EOL)
        /\ ~Contains(last.transformedContent, StaleLine)

C6_Witness ==
    /\ AfterEdit
    /\ last.signature
    /\ containsTransformSignature(StripBOM(base))
    /\ Contains(last.contents, StaleLine)
    /\ Written
    /\ last.transformedContent = StripBOM(base)

\* the lines of the transformed content
LastOutput == SplitLines(last.transformedContent)

\* a line that is a directive: not generated, and claimed by a transformer
IsDirective(line) == ~IsGeneratedLine(line) /\ Claimant(line) # 0

\* C7: in the transformed content the lines that are not generated are those
\* of the input, in their order; every generated line belongs to a block that
\* directly follows a directive line; every directive line is directly
\* followed by its block, the one this invocation generated for it.  Lists of
\* lines are compared as the texts they join to: no lines and one empty line
\* are the same text.
C7_OrderOfOutput ==
    Processed =>
        LET lines == LastLines
            out == LastOutput
            genIn == [i \in 1..Len(lines) |-> IsGeneratedLine(lines[i])]
            genOut == [j \in 1..Len(out) |-> IsGeneratedLine(out[j])]
        IN  /\ Join(SelectSeq(out, LAMBDA l : ~IsGeneratedLine(l)), EOL)
                  = Join(SelectSeq(lines, LAMBDA l : ~IsGeneratedLine(l)), EOL)
            /\ \A j \in 1..Len(out) :
                  genOut[j] =>
                      /\ j > 1
                      /\ genOut[j - 1] \/ Claimant(out[j - 1]) # 0
            /\ \A j \in 1..Len(out) :
                  (~genOut[j] /\ Claimant(out[j]) # 0) =>
                      /\ j < Len(out)
                      /\ genOut[j + 1]
            /\ Join(out, EOL) =
                  Join(Concat([i \in 1..Len(lines) |->
                                  IF genIn[i] THEN <<>>
                                  ELSE SplitLines(Join(last.pushed[i], EOL))]), EOL)

C7_Witness ==
    /\ Processed
    /\ LET lines == LastLines
           out == LastOutput
       IN  /\ Len(lines) = 2
           /\ IsGeneratedLine(lines[1])
           /\ IsDirective(lines[2])
           /\ Len(out) = 3
           /\ out[1] = lines[2]
           /\ IsGeneratedLine(out[2])
           /\ IsGeneratedLine(out[3])

\* a line "///" white space* "ts:" kind with no "=" right after the kind
MissingEquals(line, kind) ==
    /\ line # <<>>
    /\ line[1] = "///"
    /\ LET j == SkipSpace(line, 2)
       IN  /\ j < Len(line)
           /\ line[j] = "ts:"
           /\ line[j + 1] = kind
           /\ j + 2 <= Len(line) => line[j + 2] # "="

SyntaxOf(kind) ==
    IF kind = "ref" THEN "<fileOrDirectoryName>" ELSE "<fileOrDirectoryName>[,<variableName>]"

\* C8: a directive line of a recognized kind without "=" is followed by that
\* kind's syntax-error line and nothing else, and no name is looked up for it.
C8_SyntaxErrorLine ==
    Processed =>
        LET lines == LastLines
        IN  \A i \in 1..Len(lines) : \A kind \in {"import", "export", "ref"} :
                (MissingEquals(lines[i], kind) /\ ~IsGeneratedLine(lines[i])) =>
                    /\ last.pushed[i] =
                          <<lines[i],
                            <<"/// Invalid syntax for ts:", kind, "=", SyntaxOf(kind), " ",
                              "///", "ts:", kind, ":generated">> >>
                    /\ RequestedName(lines[i]) = <<>>

C8_Witness ==
    /\ Processed
    /\ currentTargetFiles # <<>>
    /\ \E i \in 1..Len(last.pushed) :
          /\ MissingEquals(last.pushed[i][1], "export")
          /\ Len(last.pushed[i][1]) > 3
          /\ Len(last.pushed[i]) = 2
          /\ last.pushed[i][2][1] = "/// Invalid syntax for ts:"

-----------------------------------------------------------------------------
(* transform on its own: one call of BaseImportExportTransformer.transform
   (lines 141-173) with the module state transformFiles leaves (lines
   225-227) *)

TransformTargetLists ==
    { <<F_app, F_fooIndex, F_fooA, F_fooB, F_barC, F_libFoo>>,
      <<F_app, F_fooIndex, F_fooA, F_barIndex, F_barC>>,
      <<F_fooA, F_barC>> }

SourceFiles == {F_app, F_fooIndex, F_fooA, F_barC}

\* templateVars as line 269 hands them over: trimmed, <<>> for a directive
\* without '=' or without text after it
TemplateVarsPool ==
    { <<>>,
      <<"foo">>,
      <<"bar">>,
      <<"a">>,
      <<"index">>,
      <<"Index">>,
      <<"zzz">>,
      <<"a", ",", " ", "A">>,
      <<"a", ",", "index">>,
      <<"b", ",", "INDEX">>,
      <<"foo", ",", "X">>,
      <<"foo", ",">> }

InitTransform ==
    /\ EOL \in {<<"LF">>, <<"CR", "LF">>}
    /\ targetFiles \in TransformTargetLists
    /\ currentTargetFiles = targetFiles
    /\ currentTargetDirs = getTargetFolders(targetFiles)
    /\ tIn \in [t : 1..3, sourceFile : SourceFiles, templateVars : TemplateVarsPool]
    /\ tOut = <<>>
    /\ pc = "transform"
    /\ disk = <<>>
    /\ changedFiles = <<>>
    /\ idx = 1
    /\ run = 0
    /\ last = NoInvocation
    /\ writes = {}
    /\ settled = {}
    /\ base = <<>>
    /\ edited = FALSE
    /\ gIn = <<>>
    /\ gOut = <<>>

\* transformer.transform(sourceFile, templateVars), with the paths it got
\* from getImports
ApplyTransform ==
    /\ pc = "transform"
    /\ tOut' = [imports |-> ImportsOf(transformers[tIn.t], tIn.sourceFile, tIn.templateVars,
                                      currentTargetFiles, currentTargetDirs),
                result |-> transform(transformers[tIn.t], tIn.sourceFile, tIn.templateVars,
                                     currentTargetFiles, currentTargetDirs, EOL)]
    /\ pc' = "transformed"
    /\ UNCHANGED <<EOL, disk, changedFiles, targetFiles, currentTargetFiles,
                   currentTargetDirs, idx, run, last, writes, settled, base, edited,
                   tIn, gIn, gOut>>

NextTransform == ApplyTransform

SpecTransform == InitTransform /\ [][NextTransform]_vars

-----------------------------------------------------------------------------
(* getTargetFolders on its own (lines 72-83) *)

TargetPathPool ==
    { <<"a", ".ts">>,
      <<"d", "/", "a", ".ts">>,
      <<"d", "/", "e", "/", "a", ".ts">>,
      <<"d", "/", "e", "/", "f", "/", "b", ".ts">>,
      <<"g", "/", "e", "/", "a", ".ts">>,
      <<"constructor", "/", "a", ".ts">>,
      <<"g", "/", "toString", "/", "h", "/", "a", ".ts">> }

TargetLists == UNION {[1..n -> TargetPathPool] : n \in 0..MaxTargets}

InitFolders ==
    /\ gIn \in TargetLists
    /\ gOut = <<>>
    /\ pc = "folders"
    /\ EOL = <<"LF">>
    /\ disk = <<>>
    /\ changedFiles = <<>>
    /\ targetFiles = <<>>
    /\ currentTargetFiles = <<>>
    /\ currentTargetDirs = <<>>
    /\ idx = 1
    /\ run = 0
    /\ last = NoInvocation
    /\ writes = {}
    /\ settled = {}
    /\ base = <<>>
    /\ edited = FALSE
    /\ tIn = <<>>
    /\ tOut = <<>>

ApplyGetTargetFolders ==
    /\ pc = "folders"
    /\ gOut' = getTargetFolders(gIn)
    /\ pc' = "folded"
    /\ UNCHANGED <<EOL, disk, changedFiles, targetFiles, currentTargetFiles,
                   currentTargetDirs, idx, run, last, writes, settled, base, edited,
                   tIn, tOut, gIn>>

NextFolders == ApplyGetTargetFolders

SpecFolders == InitFolders /\ [][NextFolders]_vars

-----------------------------------------------------------------------------
(* Properties of getTargetFolders, in SpecFolders *)

\* the directories a path lies in, "." left out
AncestorsOf(p) == {SubSeq(p, 1, k - 1) : k \in {i \in 1..Len(p) : p[i] = "/"}}

AllAncestors(tFiles) == UNION {AncestorsOf(tFiles[i]) : i \in 1..Len(tFiles)}

\* C10: getTargetFolders returns, each once, exactly the directories that are
\* an ancestor of some target file, "." left out.
C10_ExactlyTheAncestors ==
    pc = "folded" =>
        /\ Range(gOut) = AllAncestors(gIn)
        /\ Cardinality(Range(gOut)) = Len(gOut)

\* what getTargetFolders does guarantee: it returns ancestors only, each once,
\* and all of them when no directory on the way up is called like a property
\* every object inherits
FoldersLemma ==
    pc = "folded" =>
        /\ Range(gOut) \subseteq AllAncestors(gIn)
        /\ Cardinality(Range(gOut)) = Len(gOut)
        /\ AllAncestors(gIn) \cap ObjectPrototypeKeys = {}
              => Range(gOut) = AllAncestors(gIn)

-----------------------------------------------------------------------------
(* Properties of getImports and transform, in SpecTransform *)

\* the file or directory name of the directive
NameAsked == Trim(SplitOn(tIn.templateVars, ",")[1])

\* the target directory called like that name, <<>> if there is none
DirAsked ==
    LET ds == {d \in Range(currentTargetDirs) : Basename(d) = NameAsked}
    IN  IF ds = {} THEN <<>> ELSE CHOOSE d \in ds : TRUE

IndexOf(dir) == PathJoin(dir, <<"index", ".ts">>)

\* a call for an import (1) or export (2) directive whose name is that of a
\* directory holding index.ts and other files
AsksIndexedDir ==
    /\ pc = "transformed"
    /\ tIn.t \in {1, 2}
    /\ tIn.templateVars # <<>>
    /\ DirAsked # <<>>
    /\ IndexOf(DirAsked) \in DirEntries(DirAsked)
    /\ DirEntries(DirAsked) # {IndexOf(DirAsked)}

ExportedMembers(dir, sourceFile) ==
    {f \in DirEntries(dir) :
        /\ f # sourceFile
        /\ \/ ~HasExtname(f)
           \/ EndsWith(f, <<".ts">>) /\ ~EndsWith(f, <<".d", ".ts">>)}

EmittedAlias(line) == SubSeq(line, 2, FirstIn(line, 1, {" = require('", "_file"}) - 1)

\* the alias written after the comma of the directive, <<>> if none
ExplicitAlias ==
    LET c == FirstIn(tIn.templateVars, 1, {","})
    IN  Trim(SubSeq(tIn.templateVars, c + 1, Len(tIn.templateVars)))

\* a path's base name without .ts or .d.ts
BareName(p) ==
    LET b == Basename(p)
    IN  IF EndsWith(b, <<".d", ".ts">>) THEN SubSeq(b, 1, Len(b) - 2)
        ELSE IF EndsWith(b, <<".ts">>) THEN SubSeq(b, 1, Len(b) - 1)
        ELSE b

\* an import or export directive that resolved to files
EmitsAliases ==
    /\ pc = "transformed"
    /\ tIn.t \in {1, 2}
    /\ tOut.imports # <<>>

\* C9 as stated: the variable name is the explicit alias if there is one, else
\* the file's base name without .ts or .d.ts, and the directory's name in its
\* place only when that base name is exactly "index".
C9_AliasLiteralIndex ==
    EmitsAliases =>
        \A i \in 1..Len(tOut.imports) :
            EmittedAlias(tOut.result[i]) =
                IF ExplicitAlias # <<>> THEN ExplicitAlias
                ELSE IF BareName(tOut.imports[i]) = <<"index">>
                THEN Basename(Dirname(tOut.imports[i]))
                ELSE BareName(tOut.imports[i])

\* C9 amended: the name is the explicit alias if there is a non-empty one,
\* else the base name without .ts or .d.ts; whichever it is, when it equals
\* "index" with letter case ignored the name of the directory that holds the
\* file is emitted in its place.
C9_AliasIndexAnyCase ==
    EmitsAliases =>
        \A i \in 1..Len(tOut.imports) :
            LET name == IF ExplicitAlias # <<>> THEN ExplicitAlias
                        ELSE BareName(tOut.imports[i])
            IN  EmittedAlias(tOut.result[i]) =
                    IF ToLowerCase(name) = <<"index">>
                    THEN Basename(Dirname(tOut.imports[i]))
                    ELSE name

C9_Witness ==
    /\ EmitsAliases
    /\ tIn.templateVars = <<"a", ",", "index">>
    /\ tOut.imports = <<F_fooA>>
    /\ EmittedAlias(tOut.result[1]) = <<"foo">>

=============================================================================
